---- MODULE Spec2Model ----
(***************************************************************************)
(* A model of dataCAT's record-indexed append/overwrite engine:            *)
(* Database.from_df and its helpers (src/dataCAT/database.py) and the      *)
(* file-availability probe hdf5_availability (src/dataCAT/functions.py).   *)
(*                                                                         *)
(* One hdf5 group is modelled.  A dataset is a sequence; the dataset row   *)
(* at the (0-based) position p is element p + 1 of the sequence.           *)
(***************************************************************************)
EXTENDS Integers, Sequences, FiniteSets, TLC

VARIABLES
    dsets,      \* the structural datasets of the group: name -> rows
    index,      \* group['index'], the shared index scale
    props,      \* group['properties']: property name -> rows (created datasets only)
    logger,     \* group['logger'], the change log
    df,         \* the batch of the running (or last) from_df call, by column
    df_bool,    \* the mask of that batch, by column
    overwrite,  \* argument of from_df
    status,     \* argument of from_df
    pc,         \* position of the from_df call
    handle,     \* the h5py.File handle of from_df: "closed" or "open"
    err,        \* the exception the last from_df call ended with, or "none"
    calls,      \* number of from_df calls made
    run,        \* how many times in a row the current batch has been passed to from_df
    pre,        \* history: store and position column when the current call started
    prev,       \* history: the previous run of this batch: store, positions, exception
    alloc,      \* history: every position _write_hdf5 has handed out
    reused,     \* history: TRUE once _write_hdf5 hands out a position it handed out before
    ops,        \* history: the write operations the current call has performed
    p_max,      \* hdf5_availability: max_attempts (an integer; unused when p_none)
    p_none,     \* hdf5_availability: max_attempts is None
    p_timeout,  \* hdf5_availability: timeout
    p_i,        \* hdf5_availability: the local i (unused when p_none: i is np.inf)
    p_pc,       \* hdf5_availability: position of the call
    p_events,   \* hdf5_availability: the open attempts, warnings and sleeps made, in order
    p_slept,    \* hdf5_availability: the time spent in sleep()
    p_exc,      \* hdf5_availability: the local `exception` (number of the attempt that raised it)
    p_busy,     \* another process holds the file open
    p_handle,   \* hdf5_availability: the h5py.File of its `with`: "closed" or "open"
    f_op,       \* a function called on its own: the name of the last call, or "none"
    f_arg,      \* its argument (after the call: as the call left it)
    f_res       \* what it returned or raised

store == <<dsets, index, props, logger>>
call  == <<df, df_bool, overwrite, status, pc, handle, err>>
hist  == <<calls, run, pre, prev, alloc, reused, ops>>
mstate == <<store, call, hist>>
pstate == <<p_max, p_none, p_timeout, p_i, p_pc, p_events, p_slept, p_exc, p_busy, p_handle>>
fvars == <<f_op, f_arg, f_res>>
mvars == <<mstate, fvars>>      \* what hdf5_availability leaves alone
pvars == <<pstate, fvars>>      \* what from_df leaves alone
vars  == <<mstate, pstate, fvars>>

-----------------------------------------------------------------------------
\* Bounds of the model.
MaxRows    == 2     \* rows of one batch
MaxStored  == 6     \* records stored in the group
MaxRuns    == 3     \* from_df calls, fresh ones and repeated ones together
MaxAttempts == 4    \* largest max_attempts of the probe
MaxTimeout == 2     \* largest timeout of the probe
MaxTries   == 6     \* open attempts of one probe call that are explored

-----------------------------------------------------------------------------
\* Column labels (CAT.workflows, imported at database.py:37).
MOL        == "mol"
OPT        == "opt"
HDF5_INDEX == "hdf5 index"
\* The one property category the modelled batches carry.
PROP       == "E"

PORPERTY_BLACKLIST == {MOL, OPT, HDF5_INDEX, "settings"}

\* The structural datasets of a group.
DSET_NAMES == {"atoms", "bonds"}

\* Fill value of rows a resize exposes (DTYPE_DICT gives -1 for integers).
FILL == -1

Max(a, b) == IF a >= b THEN a ELSE b

RECURSIVE SortedSeq(_)
SortedSeq(S) ==
    IF S = {} THEN <<>>
    ELSE LET m == CHOOSE x \in S : \A y \in S : x <= y
         IN  <<m>> \o SortedSeq(S \ {m})

\* The rows of `rows`, a set of row numbers, in row order.
RowSeq(rows) == SortedSeq(rows)

\* values of column `col` at the rows `rows`, in row order: df.loc[rows, col].values
Loc(col, rows) == [k \in 1..Cardinality(rows) |-> col[RowSeq(rows)[k]]]

Rows == DOMAIN df.mol

-----------------------------------------------------------------------------
\* update_hdf5, lines 393-402: the mask column that classifies the rows.
\* Variant: the optimized-flag column whatever the status.
IsNew_opt(r) == df_bool.opt[r]

IsNew(r) == IF status = "optimized" THEN df_bool.hdf5[r] ELSE df_bool.opt[r]

NewRows == {r \in Rows : IsNew(r)}          \* new = df.loc[index, HDF5_INDEX]
OldRows == {r \in Rows : ~IsNew(r)}         \* old = df.loc[~index, HDF5_INDEX]

\* Series.any() of an integer series: some element is non-zero.
SeriesAny(rows) == \E r \in rows : df.hdf5[r] # 0

NewAny == SeriesAny(NewRows)                \* line 404
OldAny == SeriesAny(OldRows)                \* line 408

-----------------------------------------------------------------------------
\* The update path of a dataset: rows `idx` (0-based, ascending) receive `data`;
\* a dataset too short for `idx` is first grown to max(idx) + 1 rows, the rows
\* exposed holding FILL.
update_dset(dset, data, idx) ==
    LET top   == IF Len(idx) = 0 THEN 0
                 ELSE 1 + (CHOOSE m \in {idx[k] : k \in 1..Len(idx)} :
                              \A k \in 1..Len(idx) : idx[k] <= m)
        n     == Max(Len(dset), top)
        grown == dset \o [k \in 1..(n - Len(dset)) |-> FILL]
    IN  [k \in 1..n |->
            IF \E m \in 1..Len(idx) : idx[m] + 1 = k
            THEN data[CHOOSE m \in 1..Len(idx) : idx[m] + 1 = k]
            ELSE grown[k]]

\* PDBContainer.from_molecules(mol_series, scale): one member array per structural
\* dataset, each holding the records of the molecules, and the scale values.
from_molecules(mol_series, scale) ==
    [scale |-> scale, arrays |-> [n \in DSET_NAMES |-> mol_series]]

\* PDBContainer.to_hdf5(group, index, update_scale): every member array is written
\* at the rows idx through the update path; the index scale receives the
\* container's scale values only if update_scale.
to_hdf5(pdb, idx, update_scale) ==
    [dsets |-> [n \in DSET_NAMES |-> update_dset(dsets[n], pdb.arrays[n], idx)],
     index |-> IF update_scale THEN update_dset(index, pdb.scale, idx) ELSE index]

\* update_hdf5_log(logger, index, message): one more row in the log.
update_hdf5_log(log, idx, message) ==
    Append(log, [index |-> idx, message |-> message])

\* np.arange(i, j)
Arange(i, j) == [k \in 1..(j - i) |-> i + k - 1]

\* 1-based rank of row r among the rows `rows`
Rank(rows, r) == Cardinality({q \in rows : q <= r})

-----------------------------------------------------------------------------
Snapshot == [dsets |-> dsets, index |-> index, props |-> props,
             logger |-> logger, hdf5 |-> df.hdf5]

NoBatch == [index |-> <<>>, mol |-> <<>>, hdf5 |-> <<>>, opt |-> <<>>, E |-> <<>>]
NoMask  == [hdf5 |-> <<>>, opt |-> <<>>, E |-> <<>>]
NoPrev  == [dsets |-> [n \in DSET_NAMES |-> <<>>], index |-> <<>>, props |-> <<>>,
            hdf5_start |-> <<>>, hdf5_end |-> <<>>, err |-> "none"]

InitMain ==
    /\ dsets = [n \in DSET_NAMES |-> <<>>]
    /\ index = <<>>
    /\ props = <<>>
    /\ logger = <<>>
    /\ df = NoBatch
    /\ df_bool = NoMask
    /\ overwrite = FALSE
    /\ status = "none"
    /\ pc = "idle"
    /\ handle = "closed"
    /\ err = "none"
    /\ calls = 0
    /\ run = 0
    /\ pre = [dsets |-> [n \in DSET_NAMES |-> <<>>], index |-> <<>>, props |-> <<>>,
              logger |-> <<>>, hdf5 |-> <<>>]
    /\ prev = NoPrev
    /\ alloc = {}
    /\ reused = FALSE
    /\ ops = <<>>

InitProbe ==
    /\ p_max = 0
    /\ p_none = FALSE
    /\ p_timeout = 0
    /\ p_i = 0
    /\ p_pc = "idle"
    /\ p_events = <<>>
    /\ p_slept = 0
    /\ p_exc = 0
    /\ p_busy = FALSE
    /\ p_handle = "closed"

InitFun ==
    /\ f_op = "none"
    /\ f_arg = <<>>
    /\ f_res = <<>>

Init == InitMain /\ InitProbe /\ InitFun

-----------------------------------------------------------------------------
\* The batches from_df is called with.  A batch has n rows labelled 1..n.  The rows
\* the mask classifies as new carry the placeholder -1 in the position column,
\* the others carry the positions at which they are stored (ascending, as to_df
\* sorts them, database.py:529).  The molecule of a row is a number that differs
\* between rows and between calls.
Batch(n, cls, S, c) ==
    LET old == {r \in 1..n : ~cls[r]}
    IN  [index |-> [r \in 1..n |-> r],
         mol   |-> [r \in 1..n |-> 10 * c + r],
         hdf5  |-> [r \in 1..n |-> IF cls[r] THEN -1 ELSE SortedSeq(S)[Rank(old, r)]],
         opt   |-> [r \in 1..n |-> FALSE],
         E     |-> [r \in 1..n |-> 100 + 10 * c + r]]

\* The mask: the column the classification reads holds cls, the other one holds
\* om in every row; the property column marks every cell authoritative except
\* that of row pm (pm = 0: every cell is authoritative).
Mask(n, cls, om, pm, st) ==
    [hdf5 |-> IF st = "optimized" THEN cls ELSE [r \in 1..n |-> om],
     opt  |-> IF st = "optimized" THEN [r \in 1..n |-> om] ELSE cls,
     E    |-> [r \in 1..n |-> r # pm]]

\* Database.from_df, lines 307-315, called with a fresh batch: the arguments are
\* checked, then the probe runs.  A call that fails the check of line 306 is left
\* at position `raised`.
FromDfRowsAt(counts, raised) ==
    /\ pc = "idle"
    /\ run = 0
    /\ calls < MaxRuns
    /\ \E n \in counts, ov \in BOOLEAN, st \in {"none", "optimized"},
          two_level \in BOOLEAN, om \in BOOLEAN :
         \E cls \in [1..n -> BOOLEAN], pm \in 0..n :
           \E S \in {T \in SUBSET (0..(Len(dsets["atoms"]) - 1)) :
                        Cardinality(T) = Cardinality({r \in 1..n : ~cls[r]})} :
              /\ Len(dsets["atoms"]) + Cardinality({r \in 1..n : cls[r]}) <= MaxStored
              /\ df' = Batch(n, cls, S, calls + 1)
              /\ df_bool' = Mask(n, cls, om, pm, st)
              /\ overwrite' = ov
              /\ status' = st
              /\ pre' = [Snapshot EXCEPT !.hdf5 = df'.hdf5]
              /\ IF two_level
                 THEN pc' = "probe" /\ err' = "none"
                 ELSE pc' = raised /\ err' = "ValueError"      \* line 309
    /\ calls' = calls + 1
    /\ run' = 1
    /\ prev' = NoPrev
    /\ ops' = <<>>
    /\ UNCHANGED <<store, handle, alloc, reused, pvars>>

\* Variant: the ValueError is not raised until after the probe.
FromDfRows_late(counts) == FromDfRowsAt(counts, "probe")

\* line 309: the ValueError leaves from_df at once.
FromDfRows(counts) == FromDfRowsAt(counts, "idle")

FromDf == FromDfRows(1..MaxRows)

\* from_df is called again with the batch, the mask and the arguments of the call
\* that just ended (the batch as that call left it).
Retry ==
    /\ pc = "idle"
    /\ run >= 1
    /\ calls < MaxRuns
    /\ err # "ValueError"
    /\ Len(dsets["atoms"]) + (IF NewAny THEN Cardinality(NewRows) ELSE 0) <= MaxStored
    /\ run' = run + 1
    /\ calls' = calls + 1
    /\ prev' = [dsets |-> dsets, index |-> index, props |-> props,
                hdf5_start |-> pre.hdf5, hdf5_end |-> df.hdf5, err |-> err]
    /\ pre' = Snapshot
    /\ ops' = <<>>
    /\ pc' = "probe"
    /\ err' = "none"
    /\ UNCHANGED <<store, df, df_bool, overwrite, status, handle, alloc, reused, pvars>>

\* Database.hdf5_availability (line 315): returns, or raises the OSError of the
\* probe; `returned` and `raised` tell which of the two the probe can do.
HdfAvailabilityWhen(returned, raised) ==
    /\ pc = "probe"
    /\ \/ returned /\ pc' = "open" /\ err' = err
       \/ raised /\ pc' = "idle" /\ err' = "OSError"
    /\ UNCHANGED <<store, df, df_bool, overwrite, status, handle, hist, pvars>>

\* The probe seen from from_df: either outcome.
HdfAvailability == HdfAvailabilityWhen(TRUE, TRUE)

\* line 316: with self.hdf5('r+') as f
OpenHdf5 ==
    /\ pc = "open"
    /\ handle' = "open"
    /\ pc' = "update_hdf5"
    /\ UNCHANGED <<store, df, df_bool, overwrite, status, err, hist, pvars>>

\* Database._write_hdf5, lines 415-427, entered when new.any() (line 404);
\* i is the value line 418 computes.
write_hdf5_from(i) ==
    /\ pc = "update_hdf5"
    /\ NewAny
    /\ LET opt        == status = "optimized"
           mol_series == Loc(df.mol, NewRows)
           j          == i + Len(mol_series)
           hdf5_index == Arange(i, j)
           scale      == Loc(df.index, NewRows)
           pdb_new    == from_molecules(mol_series, scale)
           grp        == to_hdf5(pdb_new, hdf5_index, ~opt)
       IN  /\ df' = [df EXCEPT !.hdf5 = [r \in Rows |->
                        IF r \in NewRows THEN hdf5_index[Rank(NewRows, r)] ELSE df.hdf5[r]]]
           /\ dsets' = grp.dsets
           /\ index' = grp.index
           /\ alloc' = alloc \cup (i..(j - 1))
           /\ reused' = (reused \/ (alloc \cap (i..(j - 1)) # {}))
           /\ ops' = Append(ops, [op |-> "write", index |-> hdf5_index])
    /\ pc' = "log_write"
    /\ UNCHANGED <<props, logger, df_bool, overwrite, status, handle, err,
                   calls, run, pre, prev, pvars>>

\* Variant: the first free position is read off the index scale.
_write_hdf5_from_scale == write_hdf5_from(Len(index))

_write_hdf5 == write_hdf5_from(Len(dsets["atoms"]))       \* line 418

\* Database._write_hdf5, lines 429-435: the log entry, then the opt column;
\* hdf5_index is the local of that name (line 420).
write_hdf5_log_of(hdf5_index) ==
    /\ pc = "log_write"
    /\ LET opt        == status = "optimized"
           message    == [datasets |-> DSET_NAMES, overwrite |-> FALSE]
       IN  /\ logger' = update_hdf5_log(logger, hdf5_index, message)
           /\ df' = IF opt
                    THEN [df EXCEPT !.opt = [r \in Rows |-> (r \in NewRows) \/ df.opt[r]]]
                    ELSE df
    /\ pc' = "old"
    /\ UNCHANGED <<dsets, index, props, df_bool, overwrite, status, handle, err, hist, pvars>>

\* Variant: the row labels are logged in place of the positions.
_write_hdf5_log_labels == write_hdf5_log_of(Loc(df.index, NewRows))

\* line 421 stored hdf5_index in the position column of the new rows
_write_hdf5_log == write_hdf5_log_of(Loc(df.hdf5, NewRows))

\* update_hdf5, line 404: new.any() is false, _write_hdf5 is not called.
SkipWrite ==
    /\ pc = "update_hdf5"
    /\ ~NewAny
    /\ pc' = "old"
    /\ UNCHANGED <<store, df, df_bool, overwrite, status, handle, err, hist, pvars>>

\* Database._overwrite_hdf5, lines 441-448, entered when overwrite and old.any();
\* hdf5_index is the local of that name (line 442).
overwrite_hdf5_at(hdf5_index) ==
    /\ pc = "old"
    /\ overwrite /\ OldAny
    /\ LET mol_series == Loc(df.mol, OldRows)
           scale      == Loc(df.index, OldRows)
           pdb_old    == from_molecules(mol_series, scale)
           grp        == to_hdf5(pdb_old, hdf5_index, TRUE)
       IN  /\ dsets' = grp.dsets
           /\ index' = grp.index
           /\ ops' = Append(ops, [op |-> "overwrite", index |-> hdf5_index])
    /\ pc' = "log_overwrite"
    /\ UNCHANGED <<props, logger, df, df_bool, overwrite, status, handle, err,
                   calls, run, pre, prev, alloc, reused, pvars>>

\* Variant: the records are appended instead of written at their positions.
_overwrite_hdf5_appending ==
    overwrite_hdf5_at(Arange(Len(dsets["atoms"]), Len(dsets["atoms"]) + Cardinality(OldRows)))

_overwrite_hdf5 == overwrite_hdf5_at(Loc(df.hdf5, OldRows))     \* line 442

\* Database._overwrite_hdf5, lines 450-456: the log entry, then the opt column;
\* log is the group's log as the call of line 453 finds it.
overwrite_hdf5_log_to(log) ==
    /\ pc = "log_overwrite"
    /\ LET opt        == status = "optimized"
           hdf5_index == Loc(df.hdf5, OldRows)
           message    == [datasets |-> DSET_NAMES, overwrite |-> TRUE]
       IN  /\ logger' = update_hdf5_log(log, hdf5_index, message)
           /\ df' = IF opt
                    THEN [df EXCEPT !.opt = [r \in Rows |-> (r \in OldRows) \/ df.opt[r]]]
                    ELSE df
    /\ pc' = "properties"
    /\ UNCHANGED <<dsets, index, props, df_bool, overwrite, status, handle, err, hist, pvars>>

\* Variant: the entry takes the place of the last entry of the log.
_overwrite_hdf5_log_replacing ==
    overwrite_hdf5_log_to(SubSeq(logger, 1, Len(logger) - 1))

_overwrite_hdf5_log == overwrite_hdf5_log_to(logger)     \* line 453

\* update_hdf5, line 408: not (overwrite and old.any()), _overwrite_hdf5 is not called.
SkipOverwrite ==
    /\ pc = "old"
    /\ ~(overwrite /\ OldAny)
    /\ pc' = "properties"
    /\ UNCHANGED <<store, df, df_bool, overwrite, status, handle, err, hist, pvars>>

\* Database._update_properties, line 333: `df.levels` is looked up on the batch, a
\* pandas.DataFrame.  A DataFrame has no attribute `levels` (the levels belong to
\* `columns`), and the batch has no column of that name, so the lookup raises
\* AttributeError before any property is read or written.  The exception leaves the
\* `with` block of from_df (line 316), which closes the file.  `after` is the
\* group as the exception leaves it.
update_properties_raising(after) ==
    /\ pc = "properties"
    /\ err' = "AttributeError"
    /\ handle' = "closed"
    /\ pc' = "idle"
    /\ dsets' = after.dsets
    /\ index' = after.index
    /\ props' = after.props
    /\ logger' = after.logger
    /\ UNCHANGED <<df, df_bool, overwrite, status, hist, pvars>>

\* Variant: the group is put back as it was when from_df was called.
_update_properties_rollback == update_properties_raising(pre)

\* Nothing undoes the writes of update_hdf5: neither _update_properties nor from_df
\* catches the exception (lines 316-323).
_update_properties == update_properties_raising(Snapshot)

\* from_df has returned or raised and its caller lets go of the batch.
Return ==
    /\ pc = "idle"
    /\ run >= 1
    /\ df' = NoBatch
    /\ df_bool' = NoMask
    /\ overwrite' = FALSE
    /\ status' = "none"
    /\ err' = "none"
    /\ run' = 0
    /\ pre' = [Snapshot EXCEPT !.hdf5 = <<>>]
    /\ prev' = NoPrev
    /\ ops' = <<>>
    /\ UNCHANGED <<store, pc, handle, calls, alloc, reused, pvars>>

NextMain ==
    \/ FromDf
    \/ Retry
    \/ Return
    \/ HdfAvailability
    \/ OpenHdf5
    \/ _write_hdf5
    \/ _write_hdf5_log
    \/ SkipWrite
    \/ _overwrite_hdf5
    \/ _overwrite_hdf5_log
    \/ SkipOverwrite
    \/ _update_properties

-----------------------------------------------------------------------------
\* hdf5_availability (functions.py:454-503).

\* The open attempts made so far.
Attempts == Cardinality({k \in 1..Len(p_events) : p_events[k] \in {"open_ok", "open_err"}})

\* lines 485-490: i = max_attempts, or np.inf for None; i <= 0 raises ValueError.
\* nones and ks are the values of `max_attempts is None` and of max_attempts.
\* `least` is the smallest max_attempts that is let through.
ProbeCallChecking(nones, ks, least) ==
    /\ p_pc = "idle"
    /\ \E none \in nones, k \in ks \cup {0}, t \in 1..MaxTimeout :
         /\ none \/ k \in ks
         /\ none => k = 0
         /\ p_none' = none
         /\ p_max' = k
         /\ p_timeout' = t
         /\ p_i' = k
         /\ p_pc' = IF ~none /\ k < least THEN "ValueError" ELSE "loop"
    /\ UNCHANGED <<p_events, p_slept, p_exc, p_busy, p_handle, mvars>>

\* Variant: only a negative max_attempts is refused.
ProbeCallWith_negative(nones, ks) == ProbeCallChecking(nones, ks, 0)

\* line 489: `if i <= 0`
ProbeCallWith(nones, ks) == ProbeCallChecking(nones, ks, 1)

ProbeCall == ProbeCallWith(BOOLEAN, (-1)..MaxAttempts)

\* Variant: None counts as no attempt left.
WhileI_counted == p_i # 0

\* Variant: the loop goes on while i is not negative.
WhileI_nonnegative == p_none \/ p_i >= 0

\* line 492: `while i`, true for np.inf and for every non-zero integer.
WhileI == p_none \/ p_i # 0

\* lines 493-494: the file opens and the `with` block is entered.
ProbeOpenOk ==
    /\ p_pc = "loop"
    /\ WhileI
    /\ Attempts < MaxTries
    /\ ~p_busy
    /\ p_events' = Append(p_events, "open_ok")
    /\ p_handle' = "open"
    /\ p_pc' = "with"
    /\ UNCHANGED <<p_max, p_none, p_timeout, p_i, p_slept, p_exc, p_busy, mvars>>

\* line 495: `return None` leaves the `with` block, which leaves the file in state h.
ProbeReturnTo(h) ==
    /\ p_pc = "with"
    /\ p_handle' = h
    /\ p_pc' = "returned"
    /\ UNCHANGED <<p_max, p_none, p_timeout, p_i, p_events, p_slept, p_exc, p_busy, mvars>>

\* Variant: the file is left open.
ProbeReturn_leak == ProbeReturnTo("open")

\* h5py.File.__exit__ closes the file.
ProbeReturn == ProbeReturnTo("closed")

\* lines 493-501: the open raises OSError; warn, sleep(timeout), i -= 1.
ProbeOpenErr ==
    /\ p_pc = "loop"
    /\ WhileI
    /\ Attempts < MaxTries
    /\ p_busy
    /\ p_events' = p_events \o <<"open_err", "warn", "sleep">>
    /\ p_exc' = Attempts + 1
    /\ p_slept' = p_slept + p_timeout
    /\ p_i' = IF p_none THEN p_i ELSE p_i - 1
    /\ UNCHANGED <<p_max, p_none, p_timeout, p_pc, p_busy, p_handle, mvars>>

\* line 503: the loop has ended; raise exception.
ProbeRaise ==
    /\ p_pc = "loop"
    /\ ~WhileI
    /\ p_pc' = "OSError"
    /\ UNCHANGED <<p_max, p_none, p_timeout, p_i, p_events, p_slept, p_exc, p_busy,
                   p_handle, mvars>>

\* Another process opens or closes the file while the probe runs.
OtherProcess ==
    /\ p_pc = "loop"
    /\ p_busy' = ~p_busy
    /\ UNCHANGED <<p_max, p_none, p_timeout, p_i, p_pc, p_events, p_slept, p_exc,
                   p_handle, mvars>>

NextProbe ==
    \/ ProbeCall
    \/ ProbeOpenOk
    \/ ProbeOpenErr
    \/ ProbeReturn
    \/ ProbeRaise
    \/ OtherProcess

SpecProbe == Init /\ [][NextProbe]_vars

\* The probe is sequential code that runs on: a step of it that can be taken is
\* taken.  Nothing is assumed of the other process.
SpecProbeLive ==
    /\ Init
    /\ [][NextProbe]_vars
    /\ WF_vars(ProbeOpenOk)
    /\ WF_vars(ProbeOpenErr)
    /\ WF_vars(ProbeReturn)
    /\ WF_vars(ProbeRaise)

Next == NextMain

Spec == Init /\ [][Next]_vars

\* One from_df call on an empty group with a batch of three rows.
NextScenario ==
    \/ (calls = 0 /\ FromDfRows({3}))
    \/ HdfAvailability
    \/ OpenHdf5
    \/ _write_hdf5
    \/ _write_hdf5_log
    \/ SkipOverwrite
    \/ _update_properties

SpecScenario == Init /\ [][NextScenario]_vars

\* One from_df call on an empty group with a batch of one row, line 315 running
\* the probe step by step.  from_df calls the probe with its default, a bounded
\* number of attempts (10, database.py:534; 1..MaxAttempts here).
NextHandles ==
    \/ (calls = 0 /\ FromDfRows({1}))
    \/ (pc = "probe" /\ ProbeCallWith({FALSE}, 1..MaxAttempts))
    \/ (pc = "probe" /\ ProbeOpenOk)
    \/ (pc = "probe" /\ ProbeOpenErr)
    \/ (pc = "probe" /\ ProbeReturn)
    \/ (pc = "probe" /\ ProbeRaise)
    \/ (pc = "probe" /\ OtherProcess)
    \/ HdfAvailabilityWhen(p_pc = "returned", p_pc = "OSError")
    \/ OpenHdf5
    \/ _write_hdf5
    \/ _write_hdf5_log
    \/ SkipOverwrite
    \/ _update_properties

SpecHandles == Init /\ [][NextHandles]_vars

-----------------------------------------------------------------------------
\* Property groups (dataCAT.property_dset, used at database.py:44, 346, 349, and by
\* tests/test_property_dset.py).  A group names its index scale; a dataset of the
\* group has a length and the dimension scale attached to its axis 0, if any.
\* `made` marks the datasets create_prop_dset made.

MaxLen == 2         \* lengths of scales and datasets
MaxDsets == 2       \* datasets of a group

SCALES == {"index1", "index2"}      \* test_property_dset.py:43, 68
NoScale == "none"

\* Groups as test_validate_prop_group builds them: create_prop_group(f, scale1),
\* then group.create_dataset with or without attach_scale.
RECURSIVE SeqsUpTo(_, _)
SeqsUpTo(S, n) ==
    IF n = 0 THEN {<<>>}
    ELSE LET shorter == SeqsUpTo(S, n - 1)
         IN  shorter \cup {Append(q, x) : q \in {t \in shorter : Len(t) = n - 1}, x \in S}

PropDsets == [scale : SCALES \cup {NoScale}, len : 1..MaxLen, made : {FALSE}]

PropGroups ==
    [index : {"index1"}, scales : [SCALES -> 1..MaxLen], dsets : SeqsUpTo(PropDsets, MaxDsets)]

\* create_prop_dset(group, name): a dataset bound to the group's index scale.
create_prop_dset(g) ==
    [g EXCEPT !.dsets = Append(@, [scale |-> g.index, len |-> g.scales[g.index], made |-> TRUE])]

\* Variant: a dataset without a scale is compared with the group's scale.
validate_dset_unscaled(g, d) ==
    IF d.scale # g.index THEN "invalid dataset scale"
    ELSE IF d.len # g.scales[g.index] THEN "invalid dataset length"
    ELSE "ok"

\* The checks validate_prop_group makes of one dataset: (a) a scale on axis 0,
\* (b) the scale is the group's, (c) the length is the scale's.
validate_dset(g, d) ==
    IF d.scale = NoScale THEN "missing dataset scale"
    ELSE IF d.scale # g.index THEN "invalid dataset scale"
    ELSE IF d.len # g.scales[g.index] THEN "invalid dataset length"
    ELSE "ok"

\* The outcome of checking the datasets k with k in ks, in the order of iteration:
\* the message of the first one that fails and its place, or "ok".
validate_dsets(g, ks) ==
    LET bad == {k \in ks : validate_dset(g, g.dsets[k]) # "ok"}
    IN  IF bad = {} THEN [msg |-> "ok", dset |-> 0]
        ELSE LET k == CHOOSE b \in bad : \A c \in bad : b <= c
             IN  [msg |-> validate_dset(g, g.dsets[k]), dset |-> k]

\* Variant: only the first dataset of the group is checked.
validate_prop_group_first(g) == validate_dsets(g, DOMAIN g.dsets \cap {1})

\* validate_prop_group(group): every dataset of the group is checked.
validate_prop_group(g) == validate_dsets(g, DOMAIN g.dsets)

InitValidate ==
    /\ InitMain /\ InitProbe
    /\ f_op = "none"
    /\ f_arg \in PropGroups
    /\ f_res = <<>>

\* test_property_dset.py:83
CreatePropDset ==
    /\ f_op = "none"
    /\ Len(f_arg.dsets) <= MaxDsets
    /\ f_arg' = create_prop_dset(f_arg)
    /\ UNCHANGED <<f_op, f_res, mstate, pstate>>

\* test_property_dset.py:50, 62, 76, 84
ValidatePropGroup ==
    /\ f_op = "none"
    /\ f_op' = "validate_prop_group"
    /\ f_res' = validate_prop_group(f_arg)
    /\ UNCHANGED <<f_arg, mstate, pstate>>

NextValidate == CreatePropDset \/ ValidatePropGroup

SpecValidate == InitValidate /\ [][NextValidate]_vars

-----------------------------------------------------------------------------
\* update_prop_dset (dataCAT.property_dset, used at database.py:349 and by
\* tests/test_property_dset.py:15-36).  A property dataset has a dtype, rows, and
\* the length of the index scale it is bound to.

MaxGrow == 2        \* rows by which the index scale is grown

\* A value of a dataset is written as Python prints it, whatever its dtype.
DTYPES == {"int64", "float64", "bool", "text"}

\* The value of rows that were never written: DTYPE_DICT for numbers and booleans,
\* the empty string for text.
Sentinel(dtype) ==
    CASE dtype = "int64"   -> "-1"
      [] dtype = "float64" -> "nan"
      [] dtype = "bool"    -> "False"
      [] dtype = "text"    -> ""

\* Values stored before the call, and the values a call writes.
Stored(dtype) ==
    CASE dtype = "int64"   -> {"1", "2"}
      [] dtype = "float64" -> {"0.5", "1.5"}
      [] dtype = "bool"    -> {"True"}
      [] dtype = "text"    -> {"a", "b"}

Payload(dtype, j) ==
    CASE dtype = "int64"   -> IF j % 2 = 1 THEN "6" ELSE "7"
      [] dtype = "float64" -> IF j % 2 = 1 THEN "6.5" ELSE "7.5"
      [] dtype = "bool"    -> "True"
      [] dtype = "text"    -> IF j % 2 = 1 THEN "d" ELSE "e"

None == <<>>
Some(v) == <<v>>

\* The rows a slice(start, stop) selects of n rows (numpy).
SliceBound(b, n, default) ==
    IF b = None THEN default
    ELSE IF b[1] < 0 THEN Max(0, n + b[1])
    ELSE IF b[1] > n THEN n ELSE b[1]

SliceRows(start, stop, n) ==
    Arange(SliceBound(start, n, 0), Max(SliceBound(start, n, 0), SliceBound(stop, n, n)))

\* The rows an index selects: an integer, an ascending sequence, or a slice.
IndexRows(idx, n) ==
    CASE idx.kind = "int"   -> <<idx.i>>
      [] idx.kind = "seq"   -> idx.rows
      [] idx.kind = "slice" -> SliceRows(idx.start, idx.stop, n)

Top(rows) ==
    IF Len(rows) = 0 THEN 0
    ELSE 1 + (CHOOSE m \in {rows[k] : k \in 1..Len(rows)} : \A k \in 1..Len(rows) : rows[k] <= m)

\* The dataset resized to n rows, if longer than now, and `data` written at `rows`.
resize_and_write(d, data, rows, n) ==
    LET len   == Max(Len(d.rows), n)
        grown == d.rows \o [k \in 1..(len - Len(d.rows)) |-> Sentinel(d.dtype)]
    IN  [d EXCEPT !.rows = [k \in 1..len |->
            IF \E m \in 1..Len(rows) : rows[m] + 1 = k
            THEN data[CHOOSE m \in 1..Len(rows) : rows[m] + 1 = k]
            ELSE grown[k]]]

\* Variant: the dataset is resized to the length of its index scale.
update_prop_dset_to_scale(d, data, idx) ==
    resize_and_write(d, data, IndexRows(idx, Max(Len(d.rows), d.scale)), d.scale)

\* Variant: a slice selects among the rows the dataset has before the call.
update_prop_dset_short(d, data, idx) ==
    LET rows == IndexRows(idx, Len(d.rows))
    IN  resize_and_write(d, data, rows, Top(rows))

\* update_prop_dset(dset, data, index): a slice selects among the rows of the index
\* scale (test_property_dset.py:34-36); the dataset is resized to max(index) + 1.
update_prop_dset(d, data, idx) ==
    LET rows == IndexRows(idx, Max(Len(d.rows), d.scale))
    IN  resize_and_write(d, data, rows, Top(rows))


\* A dataset as long as its index scale, as create_prop_dset and the updates of a
\* valid group leave it.
PropDatasets ==
    UNION {{[dtype |-> t, rows |-> r, scale |-> Len(r)] : r \in SeqsUpTo(Stored(t), MaxLen)}
              : t \in DTYPES}

\* The indices a call passes: the rows lie within MaxLen + MaxGrow rows.
Indices ==
    LET positions == 0..(MaxLen + MaxGrow - 1)
    IN  {[kind |-> "int", i |-> i] : i \in positions}
        \cup {[kind |-> "seq", rows |-> SortedSeq(S)] :
                  S \in {T \in SUBSET positions : Cardinality(T) \in 1..2}}
        \cup {[kind |-> "slice", start |-> a, stop |-> b] :
                  a \in {None} \cup {Some(v) : v \in (-MaxGrow)..1},
                  b \in {None} \cup {Some(v) : v \in 1..MaxGrow}}

InitPropDset ==
    /\ InitMain /\ InitProbe
    /\ f_op = "none"
    /\ f_arg \in PropDatasets
    /\ f_res = <<>>

\* test_property_dset.py:28-30: idx.resize(n + 3, axis=0)
ResizeIndex ==
    /\ f_op = "none"
    /\ f_arg.scale = Len(f_arg.rows)
    /\ \E k \in 1..MaxGrow : f_arg' = [f_arg EXCEPT !.scale = @ + k]
    /\ UNCHANGED <<f_op, f_res, mstate, pstate>>

\* test_property_dset.py:24, 34: update_prop_dset(dset, data, index=...), data
\* having one value per row selected.
UpdatePropDset ==
    /\ f_op = "none"
    /\ \E idx \in Indices :
         LET rows == IndexRows(idx, Max(Len(f_arg.rows), f_arg.scale))
             data == [j \in 1..Len(rows) |-> Payload(f_arg.dtype, j)]
         IN  /\ f_arg' = update_prop_dset(f_arg, data, idx)
             /\ f_res' = [before |-> f_arg, index |-> idx, rows |-> rows, data |-> data]
    /\ f_op' = "update_prop_dset"
    /\ UNCHANGED <<mstate, pstate>>

NextPropDset == ResizeIndex \/ UpdatePropDset

SpecPropDset == InitPropDset /\ [][NextPropDset]_vars

-----------------------------------------------------------------------------
\* Database.update_mongodb (database.py:198-277).  A collection maps the composite
\* key of a document (idx_keys) to its values; it has a unique index on that key.
\* f_arg holds the collection, the rows of the dataframe, `overwrite`, and the
\* number of items the generator dict_gen has yielded; f_res holds the collection
\* as it was, the outcome of insert_many and the calls made on the collection.

KEYS == {<<"C[O-]", "O2">>, <<"CC[O-]", "O3">>, <<"CCC[O-]", "O4">>}    \* functions.py:80

\* The rows of a dataframe: distinct keys (the index), in order.
MongoBatches ==
    {q \in SeqsUpTo(KEYS, MaxRows) :
        Len(q) >= 1 /\ \A i, j \in 1..Len(q) : i # j => q[i] # q[j]}

MongoInputs ==
    [collection : UNION {[D -> {"old"}] : D \in SUBSET KEYS},
     batch      : MongoBatches,
     overwrite  : BOOLEAN,
     yielded    : {0}]

InitMongo ==
    /\ InitMain /\ InitProbe
    /\ f_op = "none"
    /\ f_arg \in MongoInputs
    /\ f_res = [old |-> f_arg.collection, bulk |-> "none", calls |-> <<>>]

\* The collection with the document of key k set to v.
WithDoc(c, k, v) == [q \in DOMAIN c \cup {k} |-> IF q = k THEN v ELSE c[q]]

RECURSIVE WithDocs(_, _, _)
WithDocs(c, keys, n) ==
    IF n = 0 THEN c ELSE WithDoc(WithDocs(c, keys, n - 1), keys[n], "new")

\* The rows of the batch whose key is in the collection.
Conflicts(a) == {i \in 1..Len(a.batch) : a.batch[i] \in DOMAIN a.collection}

\* lines 263-269: collection.insert_many(dict_gen).  Without a conflict every item
\* is yielded and inserted and update_mongodb returns.  With a conflict the call
\* raises DuplicateKeyError: by then the generator has yielded the conflicting
\* item at least, and the items before it are inserted or not (pymongo's choice).
MongoInsertMany ==
    /\ f_op = "none"
    /\ LET a == f_arg
           n == Len(a.batch)
       IN  IF Conflicts(a) = {}
           THEN /\ f_arg' = [a EXCEPT !.collection = WithDocs(a.collection, a.batch, n),
                                       !.yielded = n]
                /\ f_res' = [f_res EXCEPT !.bulk = "ok", !.calls = Append(@, <<"insert_many">>)]
                /\ f_op' = "returned"
           ELSE LET first == CHOOSE i \in Conflicts(a) : \A j \in Conflicts(a) : i <= j
                IN  \E c \in first..n, done \in {0, first - 1} :
                        /\ f_arg' = [a EXCEPT
                                        !.collection = WithDocs(a.collection, a.batch, done),
                                        !.yielded = c]
                        /\ f_res' = [f_res EXCEPT !.bulk = "DuplicateKeyError",
                                                  !.calls = Append(@, <<"insert_many">>)]
                        /\ f_op' = "plan_b"
    /\ UNCHANGED <<mstate, pstate>>

\* lines 272-277: the next item of dict_gen; insert_one, and replace_one if the key
\* is present and overwrite is set.
MongoInsertOne ==
    /\ f_op = "plan_b"
    /\ f_arg.yielded < Len(f_arg.batch)
    /\ LET a    == f_arg
           item == a.batch[a.yielded + 1]
       IN  IF item \notin DOMAIN a.collection
           THEN /\ f_arg' = [a EXCEPT !.collection = WithDoc(a.collection, item, "new"),
                                       !.yielded = @ + 1]
                /\ f_res' = [f_res EXCEPT !.calls = Append(@, <<"insert_one", item>>)]
           ELSE IF a.overwrite
           THEN /\ f_arg' = [a EXCEPT !.collection = WithDoc(a.collection, item, "new"),
                                       !.yielded = @ + 1]
                /\ f_res' = [f_res EXCEPT
                                !.calls = @ \o << <<"insert_one", item>>, <<"replace_one", item>> >>]
           ELSE /\ f_arg' = [a EXCEPT !.yielded = @ + 1]
                /\ f_res' = [f_res EXCEPT !.calls = Append(@, <<"insert_one", item>>)]
    /\ UNCHANGED <<f_op, mstate, pstate>>

\* line 272: dict_gen is exhausted, the loop and update_mongodb end.
MongoReturn ==
    /\ f_op = "plan_b"
    /\ f_arg.yielded = Len(f_arg.batch)
    /\ f_op' = "returned"
    /\ UNCHANGED <<f_arg, f_res, mstate, pstate>>

NextMongo == MongoInsertMany \/ MongoInsertOne \/ MongoReturn

SpecMongo == InitMongo /\ [][NextMongo]_vars

-----------------------------------------------------------------------------
\* update_pdb_shape and append_pdb_values (functions.py).  A dataset or a member
\* array of a container is a record: ndim, width (columns of a 2-D array, 0 for
\* a 1-D one) and rows.  Cells are integers; a cell a resize exposes holds 0.

\* Most rows a dataset holds before the call, and most records of a container.
MaxPdbRows == 2

\* Widest 2-D array.
MaxPdbWidth == 3

\* The members of a container in the order pdb.items() yields them: one 2-D
\* array and one 1-D array.
PDB_NAMES == <<"atoms", "atom_count">>

PdbNdim(name) == IF name = "atoms" THEN 2 ELSE 1

\* An array of n rows whose cells are told apart by base, row and column.
PdbArray(name, base, n, w) ==
    [ndim |-> PdbNdim(name),
     width |-> IF PdbNdim(name) = 2 THEN w ELSE 0,
     rows |-> [r \in 1..n |->
                 IF PdbNdim(name) = 2 THEN [c \in 1..w |-> base + 10 * r + c]
                 ELSE base + 10 * r]]

\* The datasets of a group all have the same length along axis 0.
PdbGroups ==
    {[name \in {PDB_NAMES[k] : k \in DOMAIN PDB_NAMES} |-> PdbArray(name, 0, n, w)] :
        n \in 0..MaxPdbRows, w \in 1..MaxPdbWidth}

\* The member arrays of a container all hold one row per record.
PdbContainers ==
    {[name \in {PDB_NAMES[k] : k \in DOMAIN PDB_NAMES} |-> PdbArray(name, 100, n, w)] :
        n \in 0..MaxPdbRows, w \in 1..MaxPdbWidth}

\* `dataset.shape = shape` (line 349): rows and columns inside both shapes keep
\* their cells, the others are dropped or exposed.
Reshape(d, n, w) ==
    [ndim |-> d.ndim,
     width |-> w,
     rows |-> [r \in 1..n |->
                 IF d.ndim = 2
                 THEN [c \in 1..w |->
                         IF r <= Len(d.rows) /\ c <= d.width THEN d.rows[r][c] ELSE 0]
                 ELSE IF r <= Len(d.rows) THEN d.rows[r] ELSE 0]]

\* Lines 343-349 for one dataset, the width of a 2-D one becoming w.
pdb_shape(d, ar, w) ==
    Reshape(d, Len(d.rows) + Len(ar.rows), IF ar.ndim = 2 THEN w ELSE d.width)

\* Variant: a 2-D dataset takes the width of the payload.
update_pdb_shape_narrow(group, pdb) ==
    [name \in DOMAIN group |-> pdb_shape(group[name], pdb[name], pdb[name].width)]

update_pdb_shape(group, pdb) ==
    [name \in DOMAIN group |->
        pdb_shape(group[name], pdb[name], Max(group[name].width, pdb[name].width))]

\* First row (from 1) of the slice `-i:` of n rows; `-0:` is `0:`, every row.
SliceFrom(i, n) == IF i = 0 THEN 1 ELSE Max(n - i, 0) + 1

\* `dataset[-i:] = ar` and `dataset[-i:, :j] = ar` (lines 398, 401).
write_rows(d, ar, first) ==
    [d EXCEPT !.rows =
        [r \in 1..Len(d.rows) |->
            IF r < first THEN d.rows[r]
            ELSE IF d.ndim = 2
                 THEN [c \in 1..d.width |->
                         IF c <= ar.width THEN ar.rows[r - first + 1][c]
                         ELSE d.rows[r][c]]
                 ELSE ar.rows[r - first + 1]]]

\* The loop of lines 393-401 over the first k members.  An empty payload selects
\* every row of a dataset that holds rows, which the assignment refuses.
RECURSIVE append_loop(_, _, _)
append_loop(res, pdb, k) ==
    IF k = 0 THEN res
    ELSE LET sofar == append_loop(res, pdb, k - 1)
             name == PDB_NAMES[k]
             d == sofar.group[name]
             ar == pdb[name]
             first == SliceFrom(Len(ar.rows), Len(d.rows))
         IN  IF sofar.exc # "none" THEN sofar
             ELSE IF Len(d.rows) - first + 1 # Len(ar.rows)
                  THEN [sofar EXCEPT !.exc = "TypeError"]
                  ELSE [sofar EXCEPT !.group[name] = write_rows(d, ar, first)]

append_pdb_values(group, pdb) ==
    append_loop([group |-> update_pdb_shape(group, pdb), exc |-> "none"],
                pdb, Len(PDB_NAMES))

InitPdb ==
    /\ InitMain /\ InitProbe
    /\ f_op = "none"
    /\ f_arg \in [group : PdbGroups, pdb : PdbContainers]
    /\ f_res = <<>>

UpdatePdbShape ==
    /\ f_op = "none"
    /\ f_op' = "update_pdb_shape"
    /\ f_res' = [group |-> update_pdb_shape(f_arg.group, f_arg.pdb), exc |-> "none"]
    /\ UNCHANGED <<f_arg, mstate, pstate>>

AppendPdbValues ==
    /\ f_op = "none"
    /\ f_op' = "append_pdb_values"
    /\ f_res' = append_pdb_values(f_arg.group, f_arg.pdb)
    /\ UNCHANGED <<f_arg, mstate, pstate>>

NextPdb == UpdatePdbShape \/ AppendPdbValues

SpecPdb == InitPdb /\ [][NextPdb]_vars

-----------------------------------------------------------------------------
\* int_to_slice (functions.py 404-451).

\* Longest sequence sliced.
MaxSeqLen == 4

\* A slice(start, stop); a bound is None or Some(integer).
int_to_slice(integer, seq_len) ==
    IF integer > 0
    THEN IF integer # seq_len
         THEN [start |-> None, stop |-> Some(integer + 1)]
         ELSE [start |-> Some(integer - 1), stop |-> None]
    ELSE IF integer = -1
         THEN [start |-> Some(integer), stop |-> None]
         ELSE [start |-> Some(integer), stop |-> Some(integer + 1)]

\* The position seq[i] reads, for an index i valid for n elements.
PyIndex(i, n) == IF i < 0 THEN n + i ELSE i

InitSlice ==
    /\ InitMain /\ InitProbe
    /\ f_op = "none"
    /\ f_arg \in [int_like : (-(MaxSeqLen + 1))..(MaxSeqLen + 1), seq_len : 0..MaxSeqLen]
    /\ f_res = <<>>

IntToSlice ==
    /\ f_op = "none"
    /\ f_op' = "int_to_slice"
    /\ f_res' = [slice |-> int_to_slice(f_arg.int_like, f_arg.seq_len), rows |-> <<>>]
    /\ UNCHANGED <<f_arg, mstate, pstate>>

\* seq[idx] for a sequence of seq_len elements: the positions the slice selects.
SliceGetitem ==
    /\ f_op = "int_to_slice"
    /\ f_op' = "getitem"
    /\ f_res' = [f_res EXCEPT
                    !.rows = SliceRows(f_res.slice.start, f_res.slice.stop, f_arg.seq_len)]
    /\ UNCHANGED <<f_arg, mstate, pstate>>

NextSlice == IntToSlice \/ SliceGetitem

SpecSlice == InitSlice /\ [][NextSlice]_vars

-----------------------------------------------------------------------------
\* even_index and get_nan_row (functions.py 146-177, 299-325).  A frame is its
\* identity, its index labels, the dtypes of its columns and its rows of values,
\* the values written as Python prints them.

\* Longest index of a frame.
MaxIndex == 2

\* Columns of a frame.
MaxCols == 2

LABELS == {"a", "b", "c"}

\* The dtypes of DTYPE_DICT, and one it does not list.
FRAME_DTYPES == {"int64", "float64", "object", "bool", "int32"}

\* DTYPE_DICT.get(dtype, None)
DTYPE_DICT_get(dtype) ==
    CASE dtype = "int64"   -> "-1"
      [] dtype = "float64" -> "nan"
      [] dtype = "object"  -> "None"
      [] dtype = "bool"    -> "False"
      [] OTHER             -> "None"

\* Variant: the integer sentinel for every column.
get_nan_row_int(frame) == [c \in 1..Len(frame.cols) |-> "-1"]

get_nan_row(frame) == [c \in 1..Len(frame.cols) |-> DTYPE_DICT_get(frame.cols[c])]

Labels(idx) == {idx[k] : k \in 1..Len(idx)}

\* Indices whose labels are distinct.
FrameIndices ==
    {idx \in SeqsUpTo(LABELS, MaxIndex) : Cardinality(Labels(idx)) = Len(idx)}

\* The value df1 holds in row r.
FrameValue(r) == IF r = 1 THEN "x1" ELSE "x2"

\* The column layouts of df1: MaxCols columns of any dtypes.
FrameLayouts == {c \in SeqsUpTo(FRAME_DTYPES, MaxCols) : Len(c) = MaxCols}

Frames(id, layouts) ==
    {[id |-> id, index |-> idx, cols |-> cols,
      rows |-> [r \in 1..Len(idx) |-> [c \in 1..Len(cols) |-> FrameValue(r)]]] :
        idx \in FrameIndices, cols \in layouts}

\* The frame even_index returns: df1 itself, or df1 with one row of sentinels
\* appended for each label of df2.index that df1.index lacks.
even_index(df1, df2) ==
    LET idx == SelectSeq(df2.index, LAMBDA l : l \notin Labels(df1.index))
        nan_row == get_nan_row(df1)
    IN  IF idx = <<>> THEN df1
        ELSE [id |-> "new",
              index |-> df1.index \o idx,
              cols |-> df1.cols,
              rows |-> df1.rows \o [k \in 1..Len(idx) |-> nan_row]]

InitEven ==
    /\ InitMain /\ InitProbe
    /\ f_op = "none"
    /\ f_arg \in [df1 : Frames("df1", FrameLayouts), df2 : Frames("df2", {<<"object">>})]
    /\ f_res = <<>>

\* The call; df1 is passed on as the call leaves it.
EvenIndex ==
    /\ f_op = "none"
    /\ f_op' = "even_index"
    /\ f_res' = [ret |-> even_index(f_arg.df1, f_arg.df2), df1 |-> f_arg.df1]
    /\ UNCHANGED <<f_arg, mstate, pstate>>

NextEven == EvenIndex

SpecEven == InitEven /\ [][NextEven]_vars

-----------------------------------------------------------------------------
\* Database.__eq__, __hash__, __reduce__, __copy__, __deepcopy__ (database.py
\* 92-194).  An object is its identity, its type, its directory, its document-store
\* parameters (None, or the mapping written as a string), its store opener and
\* the hash it has cached.

\* Objects alive at once.
MaxObjects == 2

DB_TYPES == {"Database", "Subclass"}
DB_DIRS == {"/a", "/b"}
DB_MONGO == {None, Some("host=localhost,port=27017"), Some("host=remote,port=27017")}

\* lines 121-122: partial(h5py.File, create_hdf5(dirname), libver='latest')
Opener(dirname) ==
    [func |-> "h5py.File", args |-> <<dirname, "structures.hdf5">>, keywords |-> "libver=latest"]

\* lines 118-130: the object __init__ leaves; no hash is cached.
NewDatabase(id, cls, path, mongodb) ==
    [id |-> id, type |-> cls, dirname |-> path, mongodb |-> mongodb,
     hdf5 |-> Opener(path), hash |-> None]

__eq__(self, value) ==
    IF self.type # value.type THEN FALSE
    ELSE IF ~(self.dirname = value.dirname /\ self.mongodb = value.mongodb) THEN FALSE
    ELSE /\ self.hdf5.args = value.hdf5.args
         /\ self.hdf5.keywords = value.hdf5.keywords
         /\ self.hdf5.func = value.hdf5.func

__reduce__(self) == <<self.type, <<self.dirname>>, self.mongodb>>

\* Variant: the hash of the object's identity.
hash_of_identity(self) ==
    IF self.hash # None THEN self.hash[1] ELSE <<self.id>>

\* The cached hash, or else the hash of what __reduce__ returns; two tuples
\* with the same items have the same hash.
__hash__(self) ==
    IF self.hash # None THEN self.hash[1] ELSE __reduce__(self)

__copy__(self) == self.id

__deepcopy__(self) == self.id

InitDb ==
    /\ InitMain /\ InitProbe
    /\ f_op = "none"
    /\ f_arg \in {[i \in 1..MaxObjects |-> NewDatabase(i, t[i], d[i], m[i])] :
                     t \in [1..MaxObjects -> DB_TYPES],
                     d \in [1..MaxObjects -> DB_DIRS],
                     m \in [1..MaxObjects -> DB_MONGO]}
    /\ f_res = <<>>

\* hash(obj): the value is returned and, on the first call, cached (line 168).
DbHash ==
    \E i \in 1..MaxObjects :
        /\ f_op' = "hash"
        /\ f_res' = [self |-> i, value |-> __hash__(f_arg[i])]
        /\ f_arg' = [f_arg EXCEPT ![i].hash = Some(__hash__(f_arg[i]))]
        /\ UNCHANGED <<mstate, pstate>>

DbEq ==
    \E i \in 1..MaxObjects, j \in 1..MaxObjects :
        /\ f_op' = "eq"
        /\ f_res' = [self |-> i, other |-> j, value |-> __eq__(f_arg[i], f_arg[j])]
        /\ UNCHANGED <<f_arg, mstate, pstate>>

DbCopy ==
    \E i \in 1..MaxObjects :
        /\ f_op' = "copy"
        /\ f_res' = [self |-> i, value |-> __copy__(f_arg[i])]
        /\ UNCHANGED <<f_arg, mstate, pstate>>

DbDeepcopy ==
    \E i \in 1..MaxObjects :
        /\ f_op' = "deepcopy"
        /\ f_res' = [self |-> i, value |-> __deepcopy__(f_arg[i])]
        /\ UNCHANGED <<f_arg, mstate, pstate>>

NextDb == DbHash \/ DbEq \/ DbCopy \/ DbDeepcopy

SpecDb == InitDb /\ [][NextDb]_vars

-----------------------------------------------------------------------------
\* Properties.

\* The value stored for the property at position p; the sentinel if none was written.
StoredProp(ps, p) ==
    IF PROP \in DOMAIN ps /\ (p + 1) \in DOMAIN ps[PROP] THEN ps[PROP][p + 1] ELSE FILL

\* The positions (0-based) named by a sequence of positions.
PosSet(idx) == {idx[k] : k \in 1..Len(idx)}

\* The current call performed the new-structure write.
Wrote == \E k \in 1..Len(ops) : ops[k].op = "write"

\* C1: in every update call in which n >= 1 rows are classified as new, those rows
\* receive n strictly increasing positions that were not in use before the call,
\* and the index scale grows by exactly n.
C1_AllocationMonotonic ==
    (pc = "old" /\ NewRows # {}) =>
        /\ \A r, q \in NewRows : r < q => df.hdf5[r] < df.hdf5[q]
        /\ \A r \in NewRows : df.hdf5[r] >= Len(pre.dsets["atoms"])
        /\ Len(index) = Len(pre.index) + Cardinality(NewRows)

\* C2: _write_hdf5 assigns the new rows exactly the positions L, L+1, ..., L+n-1, in
\* row order, L being the number of records stored before the call; the position
\* column of the other rows is left as it was; and no position is handed out twice.
C2_ContiguousAllocation ==
    /\ pc = "log_write" =>
          /\ \A r \in NewRows :
                df.hdf5[r] = Len(pre.dsets["atoms"]) + Rank(NewRows, r) - 1
          /\ \A r \in OldRows : df.hdf5[r] = pre.hdf5[r]
    /\ ~reused

\* C2 witness: a second round of allocation, of two rows, has just been made.
C2_Witness ==
    /\ pc = "log_write"
    /\ Cardinality(NewRows) = 2
    /\ Len(pre.dsets["atoms"]) >= 2

\* C3: between calls every dataset bound to the index scale is as long as the scale.
C3_LengthsEqualScale ==
    pc = "idle" =>
        /\ \A n \in DSET_NAMES : Len(dsets[n]) = Len(index)
        /\ \A q \in DOMAIN props : Len(props[q]) = Len(index)

\* Both the previous run of the batch and this one went through update_hdf5.
RanTwice ==
    /\ pc = "idle"
    /\ run >= 2
    /\ err = "AttributeError"
    /\ prev.err = "AttributeError"

\* The store and the position column are as the previous run left them, and this
\* run allocated no position.
SameAsPrev ==
    /\ dsets = prev.dsets
    /\ index = prev.index
    /\ props = prev.props
    /\ df.hdf5 = prev.hdf5_end
    /\ ~Wrote

C5_MaskedPropertyWrite ==
    (pc = "idle" /\ run >= 1 /\ err = "AttributeError") =>
        \A r \in Rows :
            IF overwrite \/ df_bool.E[r]
            THEN /\ PROP \in DOMAIN props
                 /\ (df.hdf5[r] + 1) \in DOMAIN props[PROP]
                 /\ props[PROP][df.hdf5[r] + 1] = df.E[r]
            ELSE StoredProp(props, df.hdf5[r]) = StoredProp(pre.props, df.hdf5[r])

\* The scenario of C6 has run to its end: the first call, on the empty group, of a
\* batch of three new rows of which one property cell is not authoritative,
\* without overwrite.
ScenarioEnd ==
    /\ pc = "idle" /\ calls = 1 /\ run = 1
    /\ err \notin {"ValueError", "OSError"}
    /\ Rows = 1..3 /\ NewRows = Rows
    /\ Cardinality({r \in Rows : ~df_bool.E[r]}) = 1
    /\ ~overwrite /\ status = "none"

\* C6: after the scenario the index scale and the property dataset have length 3,
\* the cell that is not authoritative holds the sentinel, and the log has exactly
\* one entry, which lists the dataset name and the indices [0, 1, 2].
C6_Scenario ==
    ScenarioEnd =>
        /\ Len(index) = 3
        /\ PROP \in DOMAIN props
        /\ Len(props[PROP]) = 3
        /\ \A r \in Rows : ~df_bool.E[r] => props[PROP][df.hdf5[r] + 1] = FILL
        /\ Len(logger) = 1
        /\ logger[1].index = <<0, 1, 2>>
        /\ logger[1].message.datasets # {}

\* Log entries the current call has appended, and write operations whose entry is due.
Added == Len(logger) - Len(pre.logger)
Pending == IF pc \in {"log_write", "log_overwrite"} THEN 1 ELSE 0

\* C7: every write operation of a call is followed by exactly one log entry, which
\* carries the names of the structural datasets and exactly the positions the
\* operation wrote; the entry comes after the write; nothing else is appended, and
\* no row changes without an operation that is logged.
C7_OneEntryPerWrite ==
    run >= 1 =>
        /\ Added = Len(ops) - Pending
        /\ \A k \in 1..Added :
              /\ logger[Len(pre.logger) + k].index = ops[k].index
              /\ logger[Len(pre.logger) + k].message.datasets = DSET_NAMES
              /\ logger[Len(pre.logger) + k].message.overwrite = (ops[k].op = "overwrite")
        /\ \A k \in 1..Len(ops), n \in DSET_NAMES :
              PosSet(ops[k].index) \subseteq 0..(Len(dsets[n]) - 1)
        /\ \A n \in DSET_NAMES : \A q \in 1..Len(dsets[n]) :
              (q > Len(pre.dsets[n]) \/ dsets[n][q] # pre.dsets[n][q])
                  => \E k \in 1..Len(ops) : (q - 1) \in PosSet(ops[k].index)

\* C7 witness: a call has made both writes and the entry of the second one is due.
C7_Witness ==
    /\ pc = "log_overwrite"
    /\ Len(ops) = 2
    /\ Added = 1

\* C8: the log only grows, and an entry, once appended, stays as it is.
C8_LogAppendOnly ==
    [][/\ Len(logger') >= Len(logger)
       /\ SubSeq(logger', 1, Len(logger)) = logger]_vars

\* C8 witness: rows logged by an earlier entry have been overwritten and logged again.
C8_Witness ==
    \E k, m \in 1..Len(logger) :
        /\ k < m
        /\ logger[m].message.overwrite
        /\ PosSet(logger[k].index) \cap PosSet(logger[m].index) # {}

\* C9: without overwrite the stored records of the existing rows are left alone;
\* with overwrite the existing rows are rewritten at their stored positions, no
\* other stored record changes, the positions stay, and the overwrite pass does
\* not change the length of the index scale.
C9_OverwriteFrame ==
    pc = "properties" =>
        /\ ~overwrite =>
              \A r \in OldRows, n \in DSET_NAMES :
                  dsets[n][pre.hdf5[r] + 1] = pre.dsets[n][pre.hdf5[r] + 1]
        /\ overwrite =>
              /\ \A r \in OldRows, n \in DSET_NAMES : dsets[n][df.hdf5[r] + 1] = df.mol[r]
              /\ \A r \in OldRows : df.hdf5[r] = pre.hdf5[r]
              /\ \A n \in DSET_NAMES : \A q \in 1..Len(pre.dsets[n]) :
                    dsets[n][q] # pre.dsets[n][q] => \E r \in OldRows : df.hdf5[r] = q - 1
              /\ ~Wrote => Len(index) = Len(pre.index)

\* The number of failed open attempts.
Failed == Cardinality({k \in 1..Len(p_events) : p_events[k] = "open_err"})

\* C10: with max_attempts = k >= 1 the probe makes at most k attempts; it returns at
\* the first attempt that succeeds and makes none after it; after k failures it
\* raises the OSError of the last attempt; every failed attempt is followed by a
\* warning and a sleep of `timeout` before anything else happens.
C10_BoundedProbe ==
    (~p_none /\ p_max >= 1) =>
        /\ Attempts <= p_max
        /\ \A k \in 1..Len(p_events) :
              p_events[k] = "open_ok" => (k = Len(p_events) /\ p_pc \in {"with", "returned"})
        /\ p_pc = "returned" => p_events[Len(p_events)] = "open_ok"
        /\ p_pc = "OSError" => (Failed = p_max /\ Attempts = p_max /\ p_exc = p_max)
        /\ \A k \in 1..Len(p_events) :
              p_events[k] = "open_err" =>
                  /\ k + 2 <= Len(p_events)
                  /\ p_events[k + 1] = "warn"
                  /\ p_events[k + 2] = "sleep"
        /\ p_slept = Failed * p_timeout

\* C10 witness: every one of three or more attempts failed and the probe raised.
C10_Witness ==
    /\ ~p_none
    /\ p_max >= 3
    /\ p_pc = "OSError"

\* C11: with max_attempts=None the probe never raises, whatever the number of
\* failed attempts; while it has not returned the loop condition holds, so a
\* failed attempt is followed by another one; and if from some moment on the file
\* stays openable (with attempts left within MaxTries) the probe returns.
C11_UnboundedProbe ==
    /\ [](p_none => /\ p_pc \notin {"OSError", "ValueError"}
                    /\ (p_pc = "loop" => WhileI))
    /\ (<>[](p_none /\ ~p_busy /\ Attempts < MaxTries)) => <>(p_pc = "returned")

\* C11 witness: the probe returned after more failures than any bounded call allows.
C11_Witness ==
    /\ p_none
    /\ p_pc = "returned"
    /\ Failed > MaxAttempts

\* The group and the position column are as they were when the call started, and
\* the call has performed no write operation.
NothingWritten ==
    /\ dsets = pre.dsets
    /\ index = pre.index
    /\ props = pre.props
    /\ logger = pre.logger
    /\ df.hdf5 = pre.hdf5
    /\ ops = <<>>

\* C12: a call that ends with the ValueError of the column check or with the
\* OSError of the probe has written nothing: datasets, index scale, properties,
\* log and position column are as at the start of the call and the file is not
\* open; the ValueError is raised by the first step of the call, so neither the
\* probe nor the open of the file comes before it.
C12_AbortBeforeWrite ==
    /\ [](err \in {"ValueError", "OSError"} =>
             (pc = "idle" /\ handle = "closed" /\ NothingWritten))
    /\ [][err' = "ValueError" =>
             (pc = "idle" /\ pc' = "idle" /\ handle = "closed" /\ store' = store)]_vars

\* C12 witness: a call on a group that holds records has ended with ValueError.
C12_Witness ==
    /\ err = "ValueError"
    /\ Len(dsets["atoms"]) >= 1
    /\ Len(logger) >= 1

\* C13: the file handle of from_df is open only between its `with` and the end of
\* the call, and is closed when the call has ended, by an exception too; the
\* handle of a probe attempt is closed when the probe has returned or raised; and
\* the two handles are never open together: from_df opens the file only after
\* the probe has returned.
C13_HandleScoped ==
    /\ ~(handle = "open" /\ p_handle = "open")
    /\ pc = "idle" => handle = "closed"
    /\ p_pc \in {"idle", "returned", "OSError", "ValueError"} => p_handle = "closed"
    /\ p_handle = "open" => pc = "probe"
    /\ handle = "open" => (p_pc = "returned" /\ pc \notin {"idle", "probe", "open"})

\* C13 witness: after a failed and a successful attempt of the probe, from_df
\* opened the file, raised inside the `with`, and the file is closed.
C13_Witness ==
    /\ pc = "idle"
    /\ err = "AttributeError"
    /\ handle = "closed"
    /\ Failed >= 1
    /\ p_pc = "returned"

\* The dataset has a scale on axis 0, the scale is the group's, and the dataset is
\* as long as that scale.
DsetValid(g, d) ==
    /\ d.scale # NoScale
    /\ d.scale = g.index
    /\ d.len = g.scales[g.index]

\* C14: validate_prop_group succeeds if and only if every dataset of the group has
\* a scale on axis 0, that scale is the group's index scale, and the dataset is as
\* long as the scale.
C14_ValidateIff ==
    f_op = "validate_prop_group" =>
        (f_res.msg = "ok" <=>
            \A k \in DOMAIN f_arg.dsets : DsetValid(f_arg, f_arg.dsets[k]))

\* C14 witness: a group is rejected for a dataset that is not its first one.
C14_Witness ==
    /\ f_op = "validate_prop_group"
    /\ f_res.msg # "ok"
    /\ Len(f_arg.dsets) >= 2
    /\ DsetValid(f_arg, f_arg.dsets[1])

\* C15: the error names the invariant that broke in the first dataset that fails:
\* no scale gives "missing dataset scale"; the group's scale and another length
\* gives "invalid dataset length"; the right length and another scale gives
\* "invalid dataset scale"; a dataset made by create_prop_dset is never the one
\* that fails.
C15_ValidateMessage ==
    (f_op = "validate_prop_group" /\ f_res.msg # "ok") =>
        LET g == f_arg
            d == g.dsets[f_res.dset]
        IN  /\ \A k \in 1..(f_res.dset - 1) : DsetValid(g, g.dsets[k])
            /\ ~d.made
            /\ d.scale = NoScale => f_res.msg = "missing dataset scale"
            /\ (d.scale = g.index /\ d.len # g.scales[g.index])
                   => f_res.msg = "invalid dataset length"
            /\ (d.scale \notin {NoScale, g.index} /\ d.len = g.scales[g.index])
                   => f_res.msg = "invalid dataset scale"

\* C15 witness: a dataset without a scale, as long as the group's scale, is reported
\* as missing its scale although a dataset of create_prop_dset comes after it.
C15_Witness ==
    /\ f_op = "validate_prop_group"
    /\ f_res.msg = "missing dataset scale"
    /\ f_arg.dsets[f_res.dset].len = f_arg.scales[f_arg.index]
    /\ \E k \in DOMAIN f_arg.dsets : f_arg.dsets[k].made

\* C16: after an update_prop_dset call whose index addresses rows beyond the length
\* of the dataset, the dataset is max(previous length, max(index) + 1) rows long,
\* the rows it had and that the call does not address are unchanged, the rows
\* addressed hold the data, and the new rows not addressed hold the sentinel of
\* the dtype: -1, NaN, False, or the empty string.
C16_ResizeAndFill ==
    (f_op = "update_prop_dset" /\ Top(f_res.rows) > Len(f_res.before.rows)) =>
        LET old  == f_res.before.rows
            new  == f_arg.rows
            hit  == PosSet(f_res.rows)
        IN  /\ Len(new) = Max(Len(old), Top(f_res.rows))
            /\ \A k \in 1..Len(old) : (k - 1) \notin hit => new[k] = old[k]
            /\ \A m \in 1..Len(f_res.rows) : new[f_res.rows[m] + 1] = f_res.data[m]
            /\ \A k \in (Len(old) + 1)..Len(new) : (k - 1) \notin hit =>
                  /\ f_arg.dtype = "int64" => new[k] = "-1"
                  /\ f_arg.dtype = "float64" => new[k] = "nan"
                  /\ f_arg.dtype = "bool" => new[k] = "False"
                  /\ f_arg.dtype = "text" => new[k] = ""

\* C16 witness: a call past the end of a dataset that leaves a row between the old
\* rows and the row it writes.
C16_Witness ==
    /\ f_op = "update_prop_dset"
    /\ Len(f_res.before.rows) >= 1
    /\ Top(f_res.rows) >= Len(f_res.before.rows) + 2
    /\ Len(f_res.rows) = 1

\* The index is the slice (a, b).
IsSlice(idx, a, b) == idx.kind = "slice" /\ idx.start = a /\ idx.stop = b

\* C17: when the index scale has been grown by k rows and update_prop_dset is called
\* on the dataset of the old length with k values and the slice (-k, None), the
\* dataset is as long as the scale afterwards and its last k rows are the values;
\* a call with the slice (None, k) on a dataset of k rows or more writes rows
\* 0..k-1 and leaves the length as it was.
C17_ResizeToScale ==
    f_op = "update_prop_dset" =>
        LET old == f_res.before.rows
            new == f_arg.rows
            n   == f_res.before.scale
        IN  \A k \in 1..MaxGrow :
              /\ (n = Len(old) + k /\ IsSlice(f_res.index, Some(-k), None)) =>
                    /\ Len(f_res.data) = k
                    /\ Len(new) = n
                    /\ \A j \in 1..k : new[n - k + j] = f_res.data[j]
              /\ (Len(old) >= k /\ IsSlice(f_res.index, None, Some(k))) =>
                    /\ Len(f_res.data) = k
                    /\ Len(new) = Len(old)
                    /\ \A j \in 1..k : new[j] = f_res.data[j]

\* C17 witness: the scale was grown by two rows and the slice (-2, None) was written.
C17_Witness ==
    /\ f_op = "update_prop_dset"
    /\ Len(f_res.before.rows) >= 1
    /\ f_res.before.scale = Len(f_res.before.rows) + 2
    /\ IsSlice(f_res.index, Some(-2), None)

\* C18: update_mongodb inserts the batch at once; if that succeeds, nothing else is
\* called; if it fails on a duplicate key, every row of the batch is inserted on
\* its own, and a row whose key is present is replaced if overwrite is set and
\* left as stored if not.
C18_MongoFallback ==
    (f_op = "returned" /\ f_res.bulk # "none") =>
        LET a == f_arg
        IN  /\ f_res.bulk = "ok" =>
                  /\ f_res.calls = << <<"insert_many">> >>
                  /\ \A i \in 1..Len(a.batch) :
                        a.batch[i] \in DOMAIN a.collection /\ a.collection[a.batch[i]] = "new"
            /\ f_res.bulk = "DuplicateKeyError" =>
                  \A i \in 1..Len(a.batch) :
                      LET k == a.batch[i]
                      IN  /\ k \in DOMAIN a.collection
                          /\ \E m \in 1..Len(f_res.calls) : f_res.calls[m] = <<"insert_one", k>>
                          /\ k \notin DOMAIN f_res.old => a.collection[k] = "new"
                          /\ (k \in DOMAIN f_res.old /\ a.overwrite) => a.collection[k] = "new"
                          /\ (k \in DOMAIN f_res.old /\ ~a.overwrite) => a.collection[k] = "old"

\* C19: when the per-property pass of a call fails, what the call wrote before stays
\* in the store: the structural records at the positions of the batch, the growth
\* of the datasets and of the index scale, and the log entries of those writes;
\* the failing step changes nothing in the store, and no property is written
\* after the failure.
C19_NoRollback ==
    /\ [](err = "AttributeError" =>
             /\ pc = "idle"
             /\ Added = Len(ops)
             /\ Wrote => \A r \in NewRows, n \in DSET_NAMES :
                            /\ df.hdf5[r] + 1 \in DOMAIN dsets[n]
                            /\ dsets[n][df.hdf5[r] + 1] = df.mol[r]
             /\ \A n \in DSET_NAMES : Len(dsets[n]) >= Len(pre.dsets[n])
             /\ Len(index) >= Len(pre.index)
             /\ props = pre.props)
    /\ [][(pc = "properties" /\ err' = "AttributeError") => store' = store]_vars

\* C19 witness: the pass failed after the call had written new records, with the
\* scale grown, and overwritten old ones.
C19_Witness ==
    /\ err = "AttributeError"
    /\ Len(ops) = 2
    /\ Len(index) > Len(pre.index)

\* The cells of row r of dataset d in its first w columns (the cell itself for a
\* 1-D dataset).
RowCells(d, r, w) == IF d.ndim = 2 THEN [c \in 1..w |-> d.rows[r][c]] ELSE d.rows[r]

\* C20: after update_pdb_shape or append_pdb_values every dataset is longer by the
\* record count of the container, a 2-D dataset is as wide as the wider of the
\* old dataset and the payload, every row stored before keeps its cells, and
\* after append_pdb_values the payload is in the last len(payload) rows.
C20_GrowWithoutTruncating ==
    f_op \in {"update_pdb_shape", "append_pdb_values"} =>
        \A k \in DOMAIN PDB_NAMES :
            LET old == f_arg.group[PDB_NAMES[k]]
                ar == f_arg.pdb[PDB_NAMES[k]]
                new == f_res.group[PDB_NAMES[k]]
            IN  /\ Len(new.rows) = Len(old.rows) + Len(ar.rows)
                /\ new.ndim = 2 => new.width = Max(old.width, ar.width)
                /\ new.width >= old.width
                /\ \A r \in 1..Len(old.rows) :
                       RowCells(new, r, old.width) = RowCells(old, r, old.width)
                /\ f_op = "append_pdb_values" =>
                       \A q \in 1..Len(ar.rows) :
                           RowCells(new, Len(old.rows) + q, ar.width) =
                               RowCells(ar, q, ar.width)

\* C20 witness: a container of two records narrower than the dataset was appended
\* to a group that held rows.
C20_Witness ==
    /\ f_op = "append_pdb_values"
    /\ f_res.exc = "none"
    /\ Len(f_arg.group["atoms"].rows) > 0
    /\ Len(f_arg.pdb["atoms"].rows) = 2
    /\ f_arg.pdb["atoms"].width < f_arg.group["atoms"].width

\* C21: for a sequence of seq_len >= 1 elements and an index i with
\* -seq_len <= i < seq_len, slicing with int_to_slice(i, seq_len) selects exactly
\* the element seq[i].
C21_SliceSelectsElement ==
    (/\ f_op = "getitem"
     /\ f_arg.seq_len >= 1
     /\ f_arg.int_like >= -f_arg.seq_len
     /\ f_arg.int_like < f_arg.seq_len)
        => f_res.rows = <<PyIndex(f_arg.int_like, f_arg.seq_len)>>

Positions(op) == {op.index[k] : k \in 1..Len(op.index)}

\* C23: in a call every batch row is classified as exactly one of new and
\* existing, by the position column of the mask when status is "optimized" and by
\* its optimized-flag column otherwise; the new-structure pass writes the new
\* rows, the overwrite pass the existing ones, and the two write nothing in common.
C23_ClassificationPartitions ==
    (run >= 1 /\ err # "ValueError") =>
        /\ NewRows \cap OldRows = {}
        /\ NewRows \cup OldRows = Rows
        /\ \A r \in Rows :
               (r \in NewRows) <=>
                   (IF status = "optimized" THEN df_bool.hdf5[r] ELSE df_bool.opt[r])
        /\ \A a \in 1..Len(ops) : \A b \in 1..Len(ops) :
               (ops[a].op = "write" /\ ops[b].op = "overwrite") =>
                   /\ Len(ops[a].index) = Cardinality(NewRows)
                   /\ Len(ops[b].index) = Cardinality(OldRows)
                   /\ Positions(ops[a]) \cap Positions(ops[b]) = {}

\* C23 witness: a call of status "optimized" in which both passes have written,
\* the two mask columns differing.
C23_Witness ==
    /\ run >= 1
    /\ status = "optimized"
    /\ Len(ops) = 2
    /\ df_bool.hdf5 # df_bool.opt

\* The overwrite pass of the current call rewrote the record at position p.
Rewrote(p) == \E k \in 1..Len(ops) : ops[k].op = "overwrite" /\ p \in PosSet(ops[k].index)

\* C24: after a call with overwrite, every existing row of the batch has its
\* property value stored at its position exactly if its structural record was
\* rewritten at that position in the call.
C24_SameRowSets ==
    (pc = "idle" /\ run >= 1 /\ overwrite /\ err \notin {"ValueError", "OSError"}) =>
        \A r \in OldRows :
            Rewrote(df.hdf5[r]) <=> StoredProp(props, df.hdf5[r]) = df.E[r]

\* C25: after the per-property pass of a call the properties group holds a dataset
\* for the property category of the batch, the one it held before if there was
\* one, with the rows stored before still in it, a 1-D one for the single
\* sub-column of the batch; and it holds none for a blacklisted category.
C25_GetOrCreate ==
    (pc = "idle" /\ run >= 1 /\ err \notin {"ValueError", "OSError"}) =>
        /\ PROP \in DOMAIN props
        /\ PROP \in DOMAIN pre.props => Len(props[PROP]) >= Len(pre.props[PROP])
        /\ DOMAIN props \cap PORPERTY_BLACKLIST = {}

\* C26: copy and deepcopy return the object itself; equality is reflexive and
\* symmetric and holds only between objects of one type with the same directory,
\* document-store parameters and store opener; equal objects have equal hashes;
\* and an object's hash is the same on every call.
C26_IdentityHandle ==
    /\ [](f_op \in {"copy", "deepcopy"} => f_res.value = f_arg[f_res.self].id)
    /\ [](f_op = "eq" =>
             /\ f_res.self = f_res.other => f_res.value
             /\ f_res.value = __eq__(f_arg[f_res.other], f_arg[f_res.self])
             /\ f_res.value =>
                   /\ f_arg[f_res.self].type = f_arg[f_res.other].type
                   /\ f_arg[f_res.self].dirname = f_arg[f_res.other].dirname
                   /\ f_arg[f_res.self].mongodb = f_arg[f_res.other].mongodb
                   /\ f_arg[f_res.self].hdf5 = f_arg[f_res.other].hdf5)
    /\ [](f_op # "none" =>
             \A i \in 1..MaxObjects : \A j \in 1..MaxObjects :
                 __eq__(f_arg[i], f_arg[j]) => __hash__(f_arg[i]) = __hash__(f_arg[j]))
    /\ [][\A i \in 1..MaxObjects :
             (f_op' = "hash" /\ f_res'.self = i /\ f_arg[i].hash # None)
                 => f_res'.value = f_arg[i].hash[1]]_vars

\* C26 witness: two distinct objects that are equal; the first holds its cached
\* hash and the second has just been hashed to the same value.
C26_Witness ==
    /\ f_op = "hash"
    /\ f_res.self = 2
    /\ f_arg[1].hash # None
    /\ __eq__(f_arg[1], f_arg[2])
    /\ f_res.value = f_arg[1].hash[1]

\* C27: once update_hdf5 is through, the new-structure pass has run if a batch row
\* is classified as new, and with overwrite the overwrite pass has run if a batch
\* row is classified as existing, whatever positions the rows carry.
C27_GuardedByClassification ==
    pc = "properties" =>
        /\ NewRows # {} => Wrote
        /\ (overwrite /\ OldRows # {}) => \E k \in 1..Len(ops) : ops[k].op = "overwrite"

\* C28: when a call that allocated positions for its new rows is over, the
\* property value of each such row whose cell is to be written is stored at the
\* position allocated for the row in this call, and nothing was written at the
\* placeholder.
C28_PropertiesAtAllocated ==
    (pc = "idle" /\ run >= 1 /\ Wrote /\ err \notin {"ValueError", "OSError"}) =>
        \A r \in NewRows :
            /\ df.hdf5[r] >= Len(pre.dsets["atoms"])
            /\ (overwrite \/ df_bool.E[r]) => StoredProp(props, df.hdf5[r]) = df.E[r]

\* C29: a call of the probe with max_attempts <= 0 has raised ValueError, with no
\* open attempt, no warning and no sleep.
C29_RejectsNonPositive ==
    (p_pc # "idle" /\ ~p_none /\ p_max <= 0) =>
        /\ p_pc = "ValueError"
        /\ p_events = <<>>
        /\ p_slept = 0
        /\ p_exc = 0
        /\ p_handle = "closed"

\* C29 witness: the probe was called with a negative max_attempts and raised.
C29_Witness ==
    /\ p_pc = "ValueError"
    /\ ~p_none
    /\ p_max < 0

\* The mask from_df builds when it is given none (lines 311-313): True in every cell.
AllTrueMask == \A r \in Rows : df_bool.hdf5[r] /\ df_bool.opt[r] /\ df_bool.E[r]

\* C30: after a call without a mask the property value of every batch row is
\* stored at the row's position, overwrite or not, and for a status other than
\* "optimized" every batch row was classified as new.
C30_NoMaskAllAuthoritative ==
    (/\ pc = "idle" /\ run >= 1 /\ Rows # {}
     /\ err \notin {"ValueError", "OSError"}
     /\ AllTrueMask) =>
        /\ status # "optimized" => NewRows = Rows
        /\ \A r \in Rows : StoredProp(props, df.hdf5[r]) = df.E[r]
====
